---------------------------- MODULE Spec2Model ----------------------------
(***************************************************************************)
(* The asset pipeline of tools/asset-pipeline.js: the cost ledger          *)
(* (sessionCost, costLimit, trackCost, checkBudget), generateAsset,        *)
(* reviewAsset and the per-asset loop of pipelineCommand.                  *)
(*                                                                         *)
(* Money is counted in cents (0.08 -> 8, 0.04 -> 4, 0.02 -> 2).  The       *)
(* script adds IEEE doubles; for every limit up to 0.35 the double sums    *)
(* reachable by a pipeline run take the same branch at every budget check  *)
(* as the exact sums in cents, so within MaxLimit the two agree.  Above    *)
(* that the doubles can round up past the limit (0.30000000000000004 +     *)
(* 0.08 > 0.38), which the model does not cover.                           *)
(*                                                                         *)
(* The run is modelled with its configuration in place: the API key, the   *)
(* manifest and STYLE_GUIDE.md exist, so loadConfig, loadManifest and      *)
(* loadStyleGuide return instead of ending the process.                    *)
(*                                                                         *)
(* remove-background.mjs (detectBackgroundColor, floodFillBackground,      *)
(* smoothEdges, removeBackground) is a script of its own, with its own     *)
(* specification SegSpec over small images.  sharp's trim() is taken to    *)
(* crop to the bounding box of the pixels whose alpha is not 0.            *)
(***************************************************************************)
EXTENDS Integers, Sequences, FiniteSets, TLC

\* ------------------------------------------------------------------ bounds

\* Number of target assets of the run (targetAssets.length).
NumAssets == 2

\* Largest --budget of the model, in cents.
MaxLimit == 30

\* Largest --max-iterations argument of the model.
MaxIterationsArg == 3

\* Side of the square images of the model, and height of its wide images.
SmallSide == 3

\* Width of the wide images of the model.
WideSide == 5

\* Height of the wide images of the model.
ShallowSide == 2

\* Side of the images of the model that hold one rectangle.
RectSide == 5

\* Width of the images of the model that are one pixel high.
LongSide == 12

\* How far in from the corners the model samples its images.
SampleOffset == 0

\* How many times the script is run on one file.
MaxPasses == 2

\* ------------------------------------------------------- program constants

\* `parseInt(options.maxIterations) || 3`: the fallback value.
DEFAULT_MAX_ITERATIONS == 3

\* The review prompt asks the service for `"passed": <true if overallScore >= 7>`.
PASS_SCORE == 7

\* The judgment substituted for a response without parsable JSON.
FALLBACK_SCORE == 5

\* CONFIG.whiteTolerance and CONFIG.blackTolerance of remove-background.mjs.
WHITE_TOLERANCE == 45

BLACK_TOLERANCE == 15

\* detectBackgroundColor: `variance > 30`, `brightness > 230`, `brightness < 25`.
VARIANCE_LIMIT == 30

WHITE_BRIGHTNESS == 230

BLACK_BRIGHTNESS == 25

\* floodFillBackground: `x += 10` along the edges.
SEED_STEP == 10

\* The alpha of a kept pixel, and smoothEdges' `Math.max(newAlpha, 200)`.
OPAQUE == 255

ALPHA_FLOOR == 200

\* A price table in which a review costs more than a generation.
COSTSReviewDearer ==
    ("dall-e-3-hd" :> 8) @@ ("dall-e-3-standard" :> 4) @@ ("gpt-4o-vision" :> 20)

\* COSTS, in cents.
COSTS == ("dall-e-3-hd" :> 8) @@ ("dall-e-3-standard" :> 4) @@ ("gpt-4o-vision" :> 2)

\* pipelineCommand has no --quality option: generateAsset's `options.quality || 'hd'`.
Quality == "hd"

\* The COSTS key of a generation: `dall-e-3-${quality}`.
GenCostType == IF Quality = "hd" THEN "dall-e-3-hd" ELSE "dall-e-3-standard"

ReviewCostType == "gpt-4o-vision"

\* ------------------------------------------------------------ cost ledger

\* The `COSTS[type] || 0` of trackCost, and the estimate handed to checkBudget.
CostOf(type) == IF type \in DOMAIN COSTS THEN COSTS[type] ELSE 0

\* A trackCost that looks the cost up under a key COSTS does not have.
trackCostUnknownKey(spent, type) == spent

\* A trackCost applied twice to one call (before the request and after it).
trackCostTwice(spent, type) == spent + CostOf(type) + CostOf(type)

\* trackCost(type): the new value of sessionCost.
trackCost(spent, type) == spent + CostOf(type)

\* A checkBudget called without its estimate (estimatedCost defaults to 0).
checkBudgetNoEstimate(spent, limit, estimatedCost) == ~(spent + 0 > limit)

\* A checkBudget that also refuses the call that lands exactly on the limit.
checkBudgetStrict(spent, limit, estimatedCost) == ~(spent + estimatedCost >= limit)

\* checkBudget(estimatedCost): TRUE when the call may go ahead.
checkBudget(spent, limit, estimatedCost) == ~(spent + estimatedCost > limit)

\* ------------------------------------------------------------- the values

Assets == 1..NumAssets

\* The manifest's prompt of asset a.
CatalogPrompt(a) == <<"catalog", a>>

\* NoPrompt: the regenerationPrompt field is absent or empty (falsy).
NoPrompt == <<"none">>

\* The regenerationPrompt values of a review payload.
RegenerationPrompts == {<<"improved">>, NoPrompt}

\* The overallScore values of a review payload.
ScoreChoices == {4, 7, 8}

\* What JSON.parse gives for a response that holds a JSON object.
ParsedReviews ==
    [overallScore : ScoreChoices, passed : BOOLEAN,
     regenerationPrompt : RegenerationPrompts, parseError : {FALSE}]

\* The review substituted when the response holds no parsable JSON.
FallbackReview ==
    [overallScore |-> FALLBACK_SCORE, passed |-> FALSE,
     regenerationPrompt |-> NoPrompt, parseError |-> TRUE]

\* The text of a review response: one that holds a JSON object, or one that
\* holds none (or one JSON.parse rejects).
ReviewResponses ==
    {[hasJson |-> FALSE]} \cup {[hasJson |-> TRUE, json |-> r] : r \in ParsedReviews}

\* reviewAsset's parse of the response text.
ParseReview(text) == IF text.hasJson THEN text.json ELSE FallbackReview

NoResult == [success |-> FALSE, error |-> "pending"]

\* The first target asset is a background: its id contains 'bg'.
IsBackgroundId(a) == a = 1

\* needsBackgroundRemoval(asset.id), with the pipeline's options (rembg is on).
needsBackgroundRemoval(a) == ~IsBackgroundId(a)

\* What removeBackgroundWithRembg can do for the asset: it is not run, or it
\* returns true, or it catches its error and returns false.
RembgResults(a) ==
    IF needsBackgroundRemoval(a) THEN {"removed", "failed"} ELSE {"skipped"}

BudgetError == "Budget limit reached"

Failure(msg) == [success |-> FALSE, error |-> msg]

\* A generateAsset that fails when the background removal fails.
GenerateSuccessChecksRembg(rembg) ==
    IF rembg = "failed"
      THEN [success |-> FALSE, error |-> "rembg failed"]
      ELSE [success |-> TRUE, error |-> ""]

\* generateAsset's return after the file is written: the result of the
\* background removal is not looked at.
GenerateSuccess(rembg) == [success |-> TRUE, error |-> ""]

\* ----------------------------------------------------------------- state

VARIABLES
    costLimit,         \* costLimit, set from --budget
    sessionCost,       \* sessionCost
    maxIterationsArg,  \* options.maxIterations, as an integer
    assetIdx,          \* position of the for loop in targetAssets
    currentPrompt,     \* currentAsset.prompt
    passed,            \* passed
    iteration,         \* iteration
    pc,                \* where pipelineCommand stands
    genResult,         \* what the latest generateAsset returned
    reviewResult,      \* what the latest reviewAsset returned
    genInvoked,        \* per asset: generateAsset invocations
    genCalls,          \* per asset: generation requests sent to the service
    revInvoked,        \* per asset: reviewAsset invocations
    revCalls,          \* per asset: review requests sent to the service
    genReturned,       \* generation requests the service answered
    revReturned,       \* review requests the service answered
    spentAtEntry,      \* sessionCost when the latest generateAsset was entered
    firstPass,         \* per asset: which of its reviews first had review.passed, 0: none
    outcome,           \* per asset: how its session ended
    genPrompt,         \* asset.prompt of the latest generateAsset invocation
    cycles,            \* per asset: `iteration` after its latest `iteration++`
    rembgResult,       \* what removeBackgroundWithRembg did in the latest generateAsset
    inFlight,          \* the external requests sent and not yet settled
    budgetRefused,     \* a checkBudget of this run has returned false
    workerPc,          \* interleaved generateAsset calls: where each one stands
    raced,             \* interleaved calls: a check passed while a request was in flight
    costSummary,       \* what printCostSummary printed at the end of the run, if it did
    file,              \* remove-background: the image file at inputPath
    inputFile,         \* remove-background: the file as removeBackground found it
    segOptions,        \* remove-background: options (force, checkOnly)
    segPc,             \* remove-background: where removeBackground stands
    bgInfo,            \* remove-background: what detectBackgroundColor returned
    backgroundPixels,  \* remove-background: what floodFillBackground returned
    outputAlpha,       \* remove-background: the alpha of outputData after smoothEdges
    trimmed,           \* remove-background: the trimmed image
    segResult,         \* remove-background: what removeBackground returned
    pass,              \* remove-background: which run on the file this is
    manifest,          \* per asset: the prompt of its entry in the loaded manifest
    disk,              \* per asset: which attempt's image its output file holds, 0: none
    files,             \* remove-background, batch: the content of each file of filesToProcess
    fileIdx,           \* remove-background, batch: position of the for loop in filesToProcess
    counts,            \* remove-background, batch: success, skipped, failed
    calls,             \* remove-background, batch: per file, the removeBackground calls made
    mainPc             \* remove-background, batch: where main stands

vars == <<costLimit, sessionCost, maxIterationsArg, assetIdx, currentPrompt,
          passed, iteration, pc, genResult, reviewResult, genInvoked, genCalls,
          revInvoked, revCalls, genReturned, revReturned, spentAtEntry, firstPass,
          outcome, genPrompt, cycles, rembgResult, inFlight, budgetRefused,
          workerPc, raced, costSummary, file, inputFile, segOptions, segPc,
          bgInfo, backgroundPixels, outputAlpha, trimmed, segResult, pass,
          manifest, disk, files, fileIdx, counts, calls, mainPc>>

\* The variables of pipelineCommand's own loop, which such a caller leaves alone.
pipelineVars == <<maxIterationsArg, assetIdx, currentPrompt, passed, iteration,
                  pc, genResult, reviewResult, genInvoked, genCalls, revInvoked,
                  revCalls, genReturned, revReturned, spentAtEntry, firstPass,
                  outcome, genPrompt, cycles, rembgResult, inFlight,
                  budgetRefused, manifest, disk>>

\* The variables of main's loop over filesToProcess.
batchVars == <<files, fileIdx, counts, calls, mainPc>>

\* The variables of remove-background.mjs, a script of its own.
segVars == <<file, inputFile, segOptions, segPc, bgInfo, backgroundPixels,
             outputAlpha, trimmed, segResult, pass, batchVars>>

\* The variables only the interleaved generateAsset calls of ConcurrentSpec move.
concurrentVars == <<workerPc, raced>>

\* Nothing printed yet.
NoSummary == <<>>

\* No image file: the path does not exist.
NoFile == [w |-> 0, h |-> 0, px |-> <<>>]

\* remove-background.mjs is not running.
SegIdle ==
    /\ file = NoFile
    /\ inputFile = NoFile
    /\ segOptions = [force |-> FALSE, checkOnly |-> FALSE]
    /\ segPc = "idle"
    /\ bgInfo = [type |-> "none"]
    /\ backgroundPixels = {}
    /\ outputAlpha = <<>>
    /\ trimmed = NoFile
    /\ segResult = NoResult
    /\ pass = 0

\* main is not looping over a list of files.
BatchIdle ==
    /\ files = <<>>
    /\ fileIdx = 0
    /\ counts = [success |-> 0, skipped |-> 0, failed |-> 0]
    /\ calls = <<>>
    /\ mainPc = "idle"

\* `parseInt(options.maxIterations) || 3`: 0 is falsy and gives the default.
maxIterations ==
    IF maxIterationsArg = 0 THEN DEFAULT_MAX_ITERATIONS ELSE maxIterationsArg

Init ==
    /\ costLimit \in 0..MaxLimit
    /\ sessionCost = 0
    /\ maxIterationsArg \in 0..MaxIterationsArg
    /\ assetIdx = 1
    /\ currentPrompt = CatalogPrompt(1)
    /\ passed = FALSE
    /\ iteration = 0
    /\ pc = "while"
    /\ genResult = NoResult
    /\ reviewResult = NoResult
    /\ genInvoked = [a \in Assets |-> 0]
    /\ genCalls = [a \in Assets |-> 0]
    /\ revInvoked = [a \in Assets |-> 0]
    /\ revCalls = [a \in Assets |-> 0]
    /\ genReturned = 0
    /\ revReturned = 0
    /\ spentAtEntry = 0
    /\ firstPass = [a \in Assets |-> 0]
    /\ outcome = [a \in Assets |-> "pending"]
    /\ genPrompt = NoPrompt
    /\ cycles = [a \in Assets |-> 0]
    /\ rembgResult = "none"
    /\ inFlight = {}
    /\ budgetRefused = FALSE
    /\ workerPc = [a \in Assets |-> "idle"]
    /\ raced = FALSE
    /\ costSummary = NoSummary
    /\ manifest = [a \in Assets |-> CatalogPrompt(a)]
    /\ disk = [a \in Assets |-> 0]
    /\ SegIdle
    /\ BatchIdle

\* ------------------------------------------------------- pipelineCommand

\* The for loop moving on to a session that repeats the asset it has just ended.
NextAssetSame(i) == i

\* The for loop passing over the asset that follows the one it has just ended.
NextAssetSkips(i) == i + 2

\* `for (const asset of targetAssets)`: the next position.
NextAsset(i) == i + 1

\* A loop test that allows one iteration too many.
LoopConditionOffByOne(p, it, max) == ~p /\ it <= max

\* A loop test that goes on after an approval.
LoopConditionIgnoresPassed(p, it, max) == it < max

\* `while (!passed && iteration < maxIterations)`.
LoopCondition(p, it, max) == ~p /\ it < max

\* A cycle counter that is not advanced when a cycle starts.
IncIterationSkipped(it) == it

\* `iteration++`, the first statement of the loop body.
IncIteration(it) == it + 1

\* A prompt update that takes the review's prompt at the last iteration too.
NextPromptIgnoresIteration(prompt, review, it, max) ==
    IF review.regenerationPrompt # NoPrompt
      THEN review.regenerationPrompt
      ELSE prompt

\* A prompt update that takes the review's prompt whether or not it has one.
NextPromptUnguarded(prompt, review, it, max) ==
    IF it < max THEN review.regenerationPrompt ELSE prompt

\* The prompt of currentAsset after a review that did not pass:
\* `else if (iteration < maxIterations && review.regenerationPrompt)`
\* replaces it, anything else leaves it.
NextPrompt(prompt, review, it, max) ==
    IF it < max /\ review.regenerationPrompt # NoPrompt
      THEN review.regenerationPrompt
      ELSE prompt

\* A failure that goes round the while loop again (`continue` for `break`).
EndSessionContinues(result) ==
    IF result = "failed"
      THEN /\ pc' = "while"
           /\ UNCHANGED <<outcome, assetIdx, passed, iteration, currentPrompt>>
      ELSE /\ outcome' = [outcome EXCEPT ![assetIdx] = result]
           /\ assetIdx' = NextAsset(assetIdx)
           /\ passed' = FALSE
           /\ iteration' = 0
           /\ IF NextAsset(assetIdx) \in Assets
                THEN /\ currentPrompt' = manifest[NextAsset(assetIdx)]
                     /\ pc' = "while"
                ELSE /\ currentPrompt' = NoPrompt
                     /\ pc' = "done"

\* A failure that leaves pipelineCommand (`return` for `break`).
EndSessionReturns(result) ==
    /\ outcome' = [outcome EXCEPT ![assetIdx] = result]
    /\ passed' = FALSE
    /\ iteration' = 0
    /\ IF result # "failed" /\ NextAsset(assetIdx) \in Assets
         THEN /\ assetIdx' = NextAsset(assetIdx)
              /\ currentPrompt' = manifest[NextAsset(assetIdx)]
              /\ pc' = "while"
         ELSE /\ assetIdx' = NumAssets + 1
              /\ currentPrompt' = NoPrompt
              /\ pc' = "done"

\* The session of the current asset ends with `result`; the for loop takes the
\* next asset (currentAsset = { ...asset }, a copy of its manifest entry,
\* passed = false, iteration = 0) or the run ends.
EndSession(result) ==
    /\ outcome' = [outcome EXCEPT ![assetIdx] = result]
    /\ assetIdx' = NextAsset(assetIdx)
    /\ passed' = FALSE
    /\ iteration' = 0
    /\ IF NextAsset(assetIdx) \in Assets
         THEN /\ currentPrompt' = manifest[NextAsset(assetIdx)]
              /\ pc' = "while"
         ELSE /\ currentPrompt' = NoPrompt
              /\ pc' = "done"

\* The while test fails: the session ends approved or not passed.
LoopExit ==
    /\ pc = "while"
    /\ ~LoopCondition(passed, iteration, maxIterations)
    /\ EndSession(IF passed THEN "approved" ELSE "exhausted")
    /\ UNCHANGED <<firstPass, costLimit, sessionCost, maxIterationsArg, genResult,
                   reviewResult, genInvoked, genCalls, revInvoked, revCalls,
                   genReturned, revReturned, spentAtEntry>>
    /\ UNCHANGED <<genPrompt, cycles, rembgResult, inFlight, budgetRefused, workerPc, raced>>
    /\ UNCHANGED <<costSummary, segVars, manifest, disk>>

\* A cycle starts and generateAsset's budget check refuses: `break`.
GenerateRefused ==
    /\ pc = "while"
    /\ LoopCondition(passed, iteration, maxIterations)
    /\ ~checkBudget(sessionCost, costLimit, CostOf(GenCostType))
    /\ genInvoked' = [genInvoked EXCEPT ![assetIdx] = @ + 1]
    /\ spentAtEntry' = sessionCost
    /\ genResult' = Failure(BudgetError)
    /\ EndSession("failed")
    /\ UNCHANGED <<firstPass, costLimit, sessionCost, maxIterationsArg, reviewResult,
                   genCalls, revInvoked, revCalls, genReturned, revReturned>>
    /\ genPrompt' = currentPrompt
    /\ cycles' = [cycles EXCEPT ![assetIdx] = IncIteration(iteration)]
    /\ rembgResult' = "none"
    /\ budgetRefused' = TRUE
    /\ UNCHANGED <<inFlight, workerPc, raced>>
    /\ UNCHANGED <<costSummary, segVars, manifest, disk>>

\* A cycle starts, the budget check passes and the generation request is sent.
GenerateCall ==
    /\ pc = "while"
    /\ LoopCondition(passed, iteration, maxIterations)
    /\ checkBudget(sessionCost, costLimit, CostOf(GenCostType))
    /\ iteration' = IncIteration(iteration)
    /\ genInvoked' = [genInvoked EXCEPT ![assetIdx] = @ + 1]
    /\ genCalls' = [genCalls EXCEPT ![assetIdx] = @ + 1]
    /\ spentAtEntry' = sessionCost
    /\ genResult' = NoResult
    /\ pc' = "gen_call"
    /\ UNCHANGED <<firstPass, costLimit, sessionCost, maxIterationsArg, assetIdx,
                   currentPrompt, passed, reviewResult, revInvoked, revCalls,
                   genReturned, revReturned, outcome>>
    /\ genPrompt' = currentPrompt
    /\ cycles' = [cycles EXCEPT ![assetIdx] = IncIteration(iteration)]
    /\ rembgResult' = "none"
    /\ inFlight' = inFlight \cup {<<"generate", assetIdx>>}
    /\ UNCHANGED <<budgetRefused, workerPc, raced>>
    /\ UNCHANGED <<costSummary, segVars, manifest, disk>>

\* client.images.generate throws: the catch returns the failure, `break`.
GenerateThrows ==
    /\ pc = "gen_call"
    /\ genResult' = Failure("request failed")
    /\ EndSession("failed")
    /\ UNCHANGED <<firstPass, costLimit, sessionCost, maxIterationsArg, reviewResult,
                   genInvoked, genCalls, revInvoked, revCalls, genReturned,
                   revReturned, spentAtEntry>>
    /\ inFlight' = inFlight \ {<<"generate", assetIdx>>}
    /\ UNCHANGED <<genPrompt, cycles, rembgResult, budgetRefused, workerPc, raced>>
    /\ UNCHANGED <<costSummary, segVars, manifest, disk>>

\* The service answers without an image entry: the cost is tracked, then
\* response.data[0].url throws and the catch returns the failure, `break`.
GenerateReturnsNoImage ==
    /\ pc = "gen_call"
    /\ sessionCost' = trackCost(sessionCost, GenCostType)
    /\ genReturned' = genReturned + 1
    /\ genResult' = Failure("no image entry")
    /\ EndSession("failed")
    /\ UNCHANGED <<firstPass, costLimit, maxIterationsArg, reviewResult, genInvoked,
                   genCalls, revInvoked, revCalls, revReturned, spentAtEntry>>
    /\ inFlight' = inFlight \ {<<"generate", assetIdx>>}
    /\ UNCHANGED <<genPrompt, cycles, rembgResult, budgetRefused, workerPc, raced>>
    /\ UNCHANGED <<costSummary, segVars, manifest, disk>>

\* The service answers with an image: the cost is tracked, the download starts.
GenerateReturnsImage ==
    /\ pc = "gen_call"
    /\ sessionCost' = trackCost(sessionCost, GenCostType)
    /\ genReturned' = genReturned + 1
    /\ pc' = "download"
    /\ UNCHANGED <<firstPass, costLimit, maxIterationsArg, assetIdx, currentPrompt, passed,
                   iteration, genResult, reviewResult, genInvoked, genCalls,
                   revInvoked, revCalls, revReturned, spentAtEntry, outcome>>
    /\ inFlight' = (inFlight \ {<<"generate", assetIdx>>})
                      \cup {<<"download", assetIdx>>}
    /\ UNCHANGED <<genPrompt, cycles, rembgResult, budgetRefused, workerPc, raced>>
    /\ UNCHANGED <<costSummary, segVars, manifest, disk>>

\* The download (or the write of the file) throws: failure, `break`.
DownloadFails ==
    /\ pc = "download"
    /\ genResult' = Failure("download failed")
    /\ EndSession("failed")
    /\ UNCHANGED <<firstPass, costLimit, sessionCost, maxIterationsArg, reviewResult,
                   genInvoked, genCalls, revInvoked, revCalls, genReturned,
                   revReturned, spentAtEntry>>
    /\ inFlight' = inFlight \ {<<"download", assetIdx>>}
    /\ UNCHANGED <<genPrompt, cycles, rembgResult, budgetRefused, workerPc, raced>>
    /\ UNCHANGED <<costSummary, segVars, manifest, disk>>

\* A path that depends on the prompt of the attempt.
OutputPathPerPrompt(a, prompt) ==
    IF prompt = CatalogPrompt(a) \/ a + 1 \notin Assets THEN a ELSE a + 1

\* `path.join(outputDir, outputFile)`: outputDir comes from asset.id and
\* outputFile from asset.file, which a prompt replacement leaves as they are;
\* the path of an asset is written as the asset.
OutputPath(a, prompt) == a

\* The image is written. Background removal runs when the asset needs it, and
\* removes the background or fails; generateAsset returns success either way.
DownloadDone ==
    /\ pc = "download"
    /\ rembgResult' \in RembgResults(assetIdx)
    /\ genResult' = GenerateSuccess(rembgResult')
    /\ pc' = "wait"
    /\ UNCHANGED <<firstPass, costLimit, sessionCost, maxIterationsArg, assetIdx,
                   currentPrompt, passed, iteration, reviewResult, genInvoked,
                   genCalls, revInvoked, revCalls, genReturned, revReturned,
                   spentAtEntry, outcome>>
    /\ inFlight' = inFlight \ {<<"download", assetIdx>>}
    /\ UNCHANGED <<genPrompt, cycles, budgetRefused, workerPc, raced>>
    /\ disk' = [disk EXCEPT ![OutputPath(assetIdx, currentPrompt)] = iteration]
    /\ UNCHANGED <<costSummary, segVars, manifest>>

\* After the pause reviewAsset's budget check refuses: `break`.
ReviewRefused ==
    /\ pc = "wait"
    /\ ~checkBudget(sessionCost, costLimit, CostOf(ReviewCostType))
    /\ revInvoked' = [revInvoked EXCEPT ![assetIdx] = @ + 1]
    /\ reviewResult' = Failure(BudgetError)
    /\ EndSession("failed")
    /\ UNCHANGED <<firstPass, costLimit, sessionCost, maxIterationsArg, genResult,
                   genInvoked, genCalls, revCalls, genReturned, revReturned,
                   spentAtEntry>>
    /\ budgetRefused' = TRUE
    /\ UNCHANGED <<genPrompt, cycles, rembgResult, inFlight, workerPc, raced>>
    /\ UNCHANGED <<costSummary, segVars, manifest, disk>>

\* After the pause the budget check passes, but reading the image file throws
\* before any request is made: the catch returns the failure, `break`.
ReviewReadFails ==
    /\ pc = "wait"
    /\ checkBudget(sessionCost, costLimit, CostOf(ReviewCostType))
    /\ revInvoked' = [revInvoked EXCEPT ![assetIdx] = @ + 1]
    /\ reviewResult' = Failure("read failed")
    /\ EndSession("failed")
    /\ UNCHANGED <<firstPass, costLimit, sessionCost, maxIterationsArg, genResult,
                   genInvoked, genCalls, revCalls, genReturned, revReturned,
                   spentAtEntry>>
    /\ UNCHANGED <<genPrompt, cycles, rembgResult, inFlight, budgetRefused, workerPc, raced>>
    /\ UNCHANGED <<costSummary, segVars, manifest, disk>>

\* After the pause the budget check passes and the review request is sent.
ReviewCall ==
    /\ pc = "wait"
    /\ checkBudget(sessionCost, costLimit, CostOf(ReviewCostType))
    /\ revInvoked' = [revInvoked EXCEPT ![assetIdx] = @ + 1]
    /\ revCalls' = [revCalls EXCEPT ![assetIdx] = @ + 1]
    /\ reviewResult' = NoResult
    /\ pc' = "rev_call"
    /\ UNCHANGED <<firstPass, costLimit, sessionCost, maxIterationsArg, assetIdx,
                   currentPrompt, passed, iteration, genResult, genInvoked,
                   genCalls, genReturned, revReturned, spentAtEntry, outcome>>
    /\ inFlight' = inFlight \cup {<<"review", assetIdx>>}
    /\ UNCHANGED <<genPrompt, cycles, rembgResult, budgetRefused, workerPc, raced>>
    /\ UNCHANGED <<costSummary, segVars, manifest, disk>>

\* client.chat.completions.create throws: failure, `break`.
ReviewThrows ==
    /\ pc = "rev_call"
    /\ reviewResult' = Failure("request failed")
    /\ EndSession("failed")
    /\ UNCHANGED <<firstPass, costLimit, sessionCost, maxIterationsArg, genResult,
                   genInvoked, genCalls, revInvoked, revCalls, genReturned,
                   revReturned, spentAtEntry>>
    /\ inFlight' = inFlight \ {<<"review", assetIdx>>}
    /\ UNCHANGED <<genPrompt, cycles, rembgResult, budgetRefused, workerPc, raced>>
    /\ UNCHANGED <<costSummary, segVars, manifest, disk>>

\* The service answers without a choice: the cost is tracked, then
\* response.choices[0].message throws and the outer catch returns the failure.
ReviewReturnsNoChoice ==
    /\ pc = "rev_call"
    /\ sessionCost' = trackCost(sessionCost, ReviewCostType)
    /\ revReturned' = revReturned + 1
    /\ reviewResult' = Failure("no choice")
    /\ EndSession("failed")
    /\ UNCHANGED <<firstPass, costLimit, maxIterationsArg, genResult, genInvoked, genCalls,
                   revInvoked, revCalls, genReturned, spentAtEntry>>
    /\ inFlight' = inFlight \ {<<"review", assetIdx>>}
    /\ UNCHANGED <<genPrompt, cycles, rembgResult, budgetRefused, workerPc, raced>>
    /\ UNCHANGED <<costSummary, segVars, manifest, disk>>

\* A prompt replacement written into the asset's manifest entry
\* (`asset.prompt = ...` on the entry itself).
ManifestAfterInPlace(m, a, prompt) == [m EXCEPT ![a] = prompt]

\* `currentAsset = { ...currentAsset, prompt: ... }` builds a new object from
\* the session's copy: the entries of the loaded manifest are as they were.
ManifestAfter(m, a, prompt) == m

\* The cost tracked only once the text has been parsed into a review.
ReviewChargeAfterParse(spent, text) ==
    IF text.hasJson THEN trackCost(spent, ReviewCostType) ELSE spent

\* `trackCost('gpt-4o-vision')` comes right after the awaited request and
\* before response.choices[0] is read and the text is parsed: what the text
\* holds has no part in it.
ReviewCharge(spent, text) == trackCost(spent, ReviewCostType)

\* The service answers with a text: the cost is tracked, the text is parsed
\* and the loop body acts on review.passed and review.regenerationPrompt.
ReviewReturns ==
    /\ pc = "rev_call"
    /\ \E text \in ReviewResponses :
         LET review == ParseReview(text) IN
         /\ reviewResult' = [success |-> TRUE, error |-> "", review |-> review]
         /\ sessionCost' = ReviewCharge(sessionCost, text)
         /\ IF review.passed
              THEN /\ passed' = TRUE
                   /\ outcome' = [outcome EXCEPT ![assetIdx] = "approved"]
                   /\ firstPass' = [firstPass EXCEPT ![assetIdx] =
                                      IF @ = 0 THEN revCalls[assetIdx] ELSE @]
                   /\ UNCHANGED currentPrompt
              ELSE /\ UNCHANGED <<passed, outcome, firstPass>>
                   /\ currentPrompt' =
                        NextPrompt(currentPrompt, review, iteration, maxIterations)
    /\ revReturned' = revReturned + 1
    /\ pc' = "while"
    /\ UNCHANGED <<costLimit, maxIterationsArg, assetIdx, iteration, genResult,
                   genInvoked, genCalls, revInvoked, revCalls, genReturned,
                   spentAtEntry>>
    /\ inFlight' = inFlight \ {<<"review", assetIdx>>}
    /\ UNCHANGED <<genPrompt, cycles, rembgResult, budgetRefused, workerPc, raced>>
    /\ manifest' = ManifestAfter(manifest, assetIdx, currentPrompt')
    /\ UNCHANGED <<costSummary, segVars, disk>>

\* The for loop is over: '=== PIPELINE COMPLETE ===' and printCostSummary.
PrintCostSummary ==
    /\ pc = "done"
    /\ costSummary = NoSummary
    /\ costSummary' = <<sessionCost, costLimit>>
    /\ UNCHANGED <<pipelineVars, costLimit, sessionCost, concurrentVars, segVars>>

Next ==
    \/ LoopExit
    \/ GenerateRefused
    \/ GenerateCall
    \/ GenerateThrows
    \/ GenerateReturnsNoImage
    \/ GenerateReturnsImage
    \/ DownloadFails
    \/ DownloadDone
    \/ ReviewRefused
    \/ ReviewReadFails
    \/ ReviewCall
    \/ ReviewThrows
    \/ ReviewReturnsNoChoice
    \/ ReviewReturns
    \/ PrintCostSummary

Spec == Init /\ [][Next]_vars

\* Every pending continuation runs: each external call returns or throws, and
\* the single worker goes on from there.
FairSpec == Spec /\ WF_vars(Next)

\* ------------------------------------- interleaved calls on the one ledger

\* generateAsset and reviewAsset are async and sessionCost is a module
\* variable: a caller that does not await one asset before the next has one
\* generateAsset-then-reviewAsset chain per asset under way at a time, each
\* suspended at its own `await`.  workerPc[a] is where the chain of asset a
\* stands.

\* A request of another asset is between its budget check and its trackCost.
OtherInFlight(a) ==
    \E b \in Assets \ {a} : workerPc[b] \in {"gen_call", "rev_call"}

\* generateAsset(a): the budget check refuses.
ConcGenerateRefused(a) ==
    /\ workerPc[a] = "idle"
    /\ ~checkBudget(sessionCost, costLimit, CostOf(GenCostType))
    /\ workerPc' = [workerPc EXCEPT ![a] = "done"]
    /\ UNCHANGED <<costLimit, sessionCost, raced, pipelineVars, costSummary, segVars>>

\* generateAsset(a): the budget check passes, the request is sent and awaited.
ConcGenerateCall(a) ==
    /\ workerPc[a] = "idle"
    /\ checkBudget(sessionCost, costLimit, CostOf(GenCostType))
    /\ workerPc' = [workerPc EXCEPT ![a] = "gen_call"]
    /\ raced' = (raced \/ OtherInFlight(a))
    /\ UNCHANGED <<costLimit, sessionCost, pipelineVars, costSummary, segVars>>

\* generateAsset(a): the request throws; nothing is tracked.
ConcGenerateThrows(a) ==
    /\ workerPc[a] = "gen_call"
    /\ workerPc' = [workerPc EXCEPT ![a] = "done"]
    /\ UNCHANGED <<costLimit, sessionCost, raced, pipelineVars, costSummary, segVars>>

\* generateAsset(a): the service answers and the cost is tracked; the rest of
\* generateAsset succeeds or ends in the catch.
ConcGenerateReturns(a) ==
    /\ workerPc[a] = "gen_call"
    /\ sessionCost' = trackCost(sessionCost, GenCostType)
    /\ \E ok \in BOOLEAN :
         workerPc' = [workerPc EXCEPT ![a] = IF ok THEN "wait" ELSE "done"]
    /\ UNCHANGED <<costLimit, raced, pipelineVars, costSummary, segVars>>

\* reviewAsset for a: the budget check refuses.
ConcReviewRefused(a) ==
    /\ workerPc[a] = "wait"
    /\ ~checkBudget(sessionCost, costLimit, CostOf(ReviewCostType))
    /\ workerPc' = [workerPc EXCEPT ![a] = "done"]
    /\ UNCHANGED <<costLimit, sessionCost, raced, pipelineVars, costSummary, segVars>>

\* reviewAsset for a: the budget check passes, the request is sent and awaited.
ConcReviewCall(a) ==
    /\ workerPc[a] = "wait"
    /\ checkBudget(sessionCost, costLimit, CostOf(ReviewCostType))
    /\ workerPc' = [workerPc EXCEPT ![a] = "rev_call"]
    /\ raced' = (raced \/ OtherInFlight(a))
    /\ UNCHANGED <<costLimit, sessionCost, pipelineVars, costSummary, segVars>>

\* reviewAsset for a: the request throws; nothing is tracked.
ConcReviewThrows(a) ==
    /\ workerPc[a] = "rev_call"
    /\ workerPc' = [workerPc EXCEPT ![a] = "done"]
    /\ UNCHANGED <<costLimit, sessionCost, raced, pipelineVars, costSummary, segVars>>

\* reviewAsset for a: the service answers and the cost is tracked.
ConcReviewReturns(a) ==
    /\ workerPc[a] = "rev_call"
    /\ sessionCost' = trackCost(sessionCost, ReviewCostType)
    /\ workerPc' = [workerPc EXCEPT ![a] = "done"]
    /\ UNCHANGED <<costLimit, raced, pipelineVars, costSummary, segVars>>

ConcurrentNext ==
    \E a \in Assets :
        \/ ConcGenerateRefused(a)
        \/ ConcGenerateCall(a)
        \/ ConcGenerateThrows(a)
        \/ ConcGenerateReturns(a)
        \/ ConcReviewRefused(a)
        \/ ConcReviewCall(a)
        \/ ConcReviewThrows(a)
        \/ ConcReviewReturns(a)

ConcurrentSpec == Init /\ [][ConcurrentNext]_vars


\* ------------------------------------------------- remove-background.mjs

\* The script works on decoded images.  An image is [w, h, px], px giving each
\* coordinate <<x, y>> its colour and alpha.  Its images are hundreds of
\* pixels wide; the model takes every image of SmallSide x SmallSide pixels
\* over three colours, every image of WideSide x ShallowSide pixels over two,
\* every image of LongSide x 1 pixels over two (long enough for a starting point
\* of the fill that is no corner),
\* every white RectSide x RectSide image with one black rectangle inside,
\* and samples them in their corners (SampleOffset), where the script samples
\* 5 pixels in.

Colours == {"white", "cream", "black"}

\* The channels of a colour.
RGB(c) ==
    CASE c = "white" -> <<255, 255, 255>>
      [] c = "cream" -> <<240, 230, 215>>
      [] c = "black" -> <<0, 0, 0>>

Channels == 1..3

Coords(w, h) == (0..(w - 1)) \X (0..(h - 1))

Abs(n) == IF n < 0 THEN -n ELSE n

Max(a, b) == IF a >= b THEN a ELSE b

Min(a, b) == IF a <= b THEN a ELSE b

\* A file sharp cannot decode.
BadFile == [w |-> 0, h |-> 0, px |-> <<"not an image">>]

\* The images of w x h pixels over the colours cs, every pixel opaque.
ImagesOf(w, h, cs) ==
    {[w |-> w, h |-> h, px |-> [p \in Coords(w, h) |-> [c |-> m[p], a |-> OPAQUE]]] :
        m \in [Coords(w, h) -> cs]}

\* The rectangles strictly inside a w x h image.
InnerBoxes(w, h) ==
    {b \in [x0 : 1..(w - 2), x1 : 1..(w - 2), y0 : 1..(h - 2), y1 : 1..(h - 2)] :
        b.x0 <= b.x1 /\ b.y0 <= b.y1}

\* The pixels of a rectangle.
InBox(b) == (b.x0..b.x1) \X (b.y0..b.y1)

\* A white image with one solid rectangle of colour c.
RectImage(w, h, b, c) ==
    [w |-> w, h |-> h,
     px |-> [p \in Coords(w, h) |->
               [c |-> IF p \in InBox(b) THEN c ELSE "white", a |-> OPAQUE]]]

RectImages == {RectImage(RectSide, RectSide, b, "black") : b \in InnerBoxes(RectSide, RectSide)}

Images ==
    ImagesOf(SmallSide, SmallSide, Colours)
      \cup ImagesOf(WideSide, ShallowSide, {"white", "black"})
      \cup ImagesOf(LongSide, 1, {"white", "black"})
      \cup RectImages

\* detectBackgroundColor: the four corner samples.
CornerSamplesAt(img, o) ==
    LET corners == << <<o, o>>, <<img.w - o - 1, o>>,
                      <<o, img.h - o - 1>>, <<img.w - o - 1, img.h - o - 1>> >>
    IN  [i \in 1..4 |-> RGB(img.px[corners[i]].c)]

CornerSamples(img) == CornerSamplesAt(img, SampleOffset)

\* detectBackgroundColor.  The averages are quarters of integers: color4 is
\* four times the colour, and the tests are scaled to match
\* (variance > 30, brightness > 230, brightness < 25).
detectBackgroundColorOf(s) ==
    LET color4 == [k \in Channels |-> s[1][k] + s[2][k] + s[3][k] + s[4][k]]
        dev(i) == Abs(4 * s[i][1] - color4[1]) + Abs(4 * s[i][2] - color4[2])
                    + Abs(4 * s[i][3] - color4[3])
        variance16 == dev(1) + dev(2) + dev(3) + dev(4)
        brightness12 == color4[1] + color4[2] + color4[3]
    IN  IF variance16 > 16 * VARIANCE_LIMIT
          THEN [type |-> "unknown", color4 |-> color4]
          ELSE IF brightness12 > 12 * WHITE_BRIGHTNESS
                 THEN [type |-> "white", color4 |-> color4]
                 ELSE IF brightness12 < 12 * BLACK_BRIGHTNESS
                        THEN [type |-> "black", color4 |-> color4]
                        ELSE [type |-> "unknown", color4 |-> color4]

detectBackgroundColor(img) == detectBackgroundColorOf(CornerSamples(img))

\* `bgInfo.type === 'white' ? CONFIG.whiteTolerance : CONFIG.blackTolerance`.
ToleranceFor(type) == IF type = "white" THEN WHITE_TOLERANCE ELSE BLACK_TOLERANCE

\* A match on one channel is taken for a match.
isBackgroundAnyChannel(rgb, color4, tolerance) ==
    \E k \in Channels : Abs(4 * rgb[k] - color4[k]) <= 4 * tolerance

\* A test that takes the pixels at least `tolerance` away from the colour.
isBackgroundOutsideTolerance(rgb, color4, tolerance) ==
    \A k \in Channels : Abs(4 * rgb[k] - color4[k]) >= 4 * tolerance

\* floodFillBackground's isBackground: within tolerance on all three channels.
isBackground(rgb, color4, tolerance) ==
    \A k \in Channels : Abs(4 * rgb[k] - color4[k]) <= 4 * tolerance

\* A fill that also spreads along the diagonals.
FillNeighboursDiagonal(p) ==
    << <<p[1] + 1, p[2]>>, <<p[1] - 1, p[2]>>, <<p[1], p[2] + 1>>, <<p[1], p[2] - 1>>,
       <<p[1] + 1, p[2] + 1>>, <<p[1] - 1, p[2] - 1>>,
       <<p[1] + 1, p[2] - 1>>, <<p[1] - 1, p[2] + 1>> >>

\* The four pushes of fill, in their order.
FillNeighbours(p) ==
    << <<p[1] + 1, p[2]>>, <<p[1] - 1, p[2]>>, <<p[1], p[2] + 1>>, <<p[1], p[2] - 1>> >>

\* fill's while loop on its queue; st is [visited, bg], shared by all fills.
RECURSIVE FillQueue(_, _, _, _, _)
FillQueue(queue, st, img, color4, tolerance) ==
    IF queue = <<>>
      THEN st
      ELSE LET p == Head(queue)
               rest == Tail(queue)
           IN  IF p \in st.visited
                 THEN FillQueue(rest, st, img, color4, tolerance)
                 ELSE IF p \notin Coords(img.w, img.h)
                   THEN FillQueue(rest, st, img, color4, tolerance)
                   ELSE IF ~isBackground(RGB(img.px[p].c), color4, tolerance)
                     THEN FillQueue(rest,
                                    [st EXCEPT !.visited = @ \cup {p}],
                                    img, color4, tolerance)
                     ELSE FillQueue(rest \o FillNeighbours(p),
                                    [visited |-> st.visited \cup {p},
                                     bg |-> st.bg \cup {p}],
                                    img, color4, tolerance)

\* 0, 10, 20, ... below n: the x (or y) of the seeds along an edge.
EdgeSteps(n) == [k \in 1..(((n - 1) \div SEED_STEP) + 1) |-> (k - 1) * SEED_STEP]

\* The starting points of floodFillBackground, in the order of its calls.
Seeds(w, h) ==
    LET xs == EdgeSteps(w)
        ys == EdgeSteps(h)
    IN  << <<0, 0>>, <<w - 1, 0>>, <<0, h - 1>>, <<w - 1, h - 1>> >>
        \o [k \in 1..(2 * Len(xs)) |->
              IF k % 2 = 1 THEN <<xs[(k + 1) \div 2], 0>>
                           ELSE <<xs[k \div 2], h - 1>>]
        \o [k \in 1..(2 * Len(ys)) |->
              IF k % 2 = 1 THEN <<0, ys[(k + 1) \div 2]>>
                           ELSE <<w - 1, ys[k \div 2]>>]

\* The fills from a sequence of starting points, one after the other.
RECURSIVE FillFrom(_, _, _, _, _)
FillFrom(seeds, st, img, color4, tolerance) ==
    IF seeds = <<>>
      THEN st
      ELSE FillFrom(Tail(seeds),
                    FillQueue(<<Head(seeds)>>, st, img, color4, tolerance),
                    img, color4, tolerance)

\* floodFillBackground, started from the given points.
FloodFillFrom(seeds, img, color4, tolerance) ==
    FillFrom(seeds, [visited |-> {}, bg |-> {}], img, color4, tolerance).bg

floodFillBackground(img, color4, tolerance) ==
    FloodFillFrom(Seeds(img.w, img.h), img, color4, tolerance)

\* removeBackground's loop over the pixels: alpha 0 for the background pixels,
\* 255 for the others.
AssignAlpha(img, bg) ==
    [p \in Coords(img.w, img.h) |-> IF p \in bg THEN 0 ELSE OPAQUE]

\* A smoothing without `Math.max(newAlpha, 200)`.
SmoothedAlphaNoFloor(alpha, neighbourSum) == (4 * alpha + neighbourSum + 4) \div 8

\* `Math.max(Math.round((alpha + avgNeighborAlpha) / 2), 200)`, with
\* avgNeighborAlpha a quarter of neighbourSum.
SmoothedAlpha(alpha, neighbourSum) ==
    Max((4 * alpha + neighbourSum + 4) \div 8, ALPHA_FLOOR)

\* The pixels smoothEdges' loops visit: `y = 1 .. height - 2`, `x = 1 .. width - 2`.
InSmoothingRange(p, w, h) == p[1] \in 1..(w - 2) /\ p[2] \in 1..(h - 2)

\* The 4-connected neighbours of a pixel that lie in the image.
Neighbours4(p, w, h) ==
    {<<p[1] + 1, p[2]>>, <<p[1] - 1, p[2]>>, <<p[1], p[2] + 1>>, <<p[1], p[2] - 1>>}
      \cap Coords(w, h)

\* smoothEdges, reading tempAlpha (the alpha before) and writing outputData.
smoothEdges(tempAlpha, w, h) ==
    [p \in Coords(w, h) |->
        IF InSmoothingRange(p, w, h) /\ tempAlpha[p] = OPAQUE
             /\ \E n \in Neighbours4(p, w, h) : tempAlpha[n] = 0
          THEN SmoothedAlpha(tempAlpha[p],
                             tempAlpha[<<p[1] - 1, p[2]>>] + tempAlpha[<<p[1] + 1, p[2]>>]
                               + tempAlpha[<<p[1], p[2] - 1>>]
                               + tempAlpha[<<p[1], p[2] + 1>>])
          ELSE tempAlpha[p]]

\* An output in which the smoothing blackens the pixels it lowers.
OutputImageSmoothingDarkens(img, bg, alpha) ==
    [w |-> img.w, h |-> img.h,
     px |-> [p \in Coords(img.w, img.h) |->
               IF p \in bg \/ alpha[p] < OPAQUE
                 THEN [c |-> "black", a |-> alpha[p]]
                 ELSE [c |-> img.px[p].c, a |-> alpha[p]]]]

\* outputData as an image: background pixels are 0, 0, 0, 0, the others keep
\* their colour.
OutputImage(img, bg, alpha) ==
    [w |-> img.w, h |-> img.h,
     px |-> [p \in Coords(img.w, img.h) |->
               IF p \in bg THEN [c |-> "black", a |-> 0]
                           ELSE [c |-> img.px[p].c, a |-> alpha[p]]]]

\* The pixels of an image that are not fully transparent.
Content(img) == {p \in Coords(img.w, img.h) : img.px[p].a # 0}

\* The bounding box of a non-empty set of pixels.
BoundingBox(ps) ==
    [x0 |-> CHOOSE x \in {p[1] : p \in ps} : \A p \in ps : x <= p[1],
     x1 |-> CHOOSE x \in {p[1] : p \in ps} : \A p \in ps : x >= p[1],
     y0 |-> CHOOSE y \in {p[2] : p \in ps} : \A p \in ps : y <= p[2],
     y1 |-> CHOOSE y \in {p[2] : p \in ps} : \A p \in ps : y >= p[2]]

\* A trim that leaves the canvas as it is.
CropKeepsCanvas(img, box) == img

\* The part of an image inside a box.
Crop(img, box) ==
    [w |-> box.x1 - box.x0 + 1, h |-> box.y1 - box.y0 + 1,
     px |-> [p \in Coords(box.x1 - box.x0 + 1, box.y1 - box.y0 + 1) |->
               img.px[<<p[1] + box.x0, p[2] + box.y0>>]]]

\* `outputImage.trim().png().toBuffer()`: the image cropped to the bounding
\* box of its content.  With nothing to keep, sharp throws or returns the
\* image as it is, depending on its version; an image under 3 x 3 it may
\* refuse.
TrimOutcomes(img) ==
    IF Content(img) = {}
      THEN {[ok |-> FALSE], [ok |-> TRUE, image |-> img]}
      ELSE {[ok |-> TRUE, image |-> Crop(img, BoundingBox(Content(img)))]}
             \cup (IF img.w < 3 /\ img.h < 3 THEN {[ok |-> FALSE]} ELSE {})

\* A check of the background type that --force does not lift.
SkipsUnknownIgnoresForce(type, options) == type = "unknown"

\* `if (bgInfo.type === 'unknown') { if (!options.force) return ... }`.
SkipsUnknown(type, options) == type = "unknown" /\ ~options.force

\* A save that --check does not hold back.
SavesAlways(options) == TRUE

\* `if (options.checkOnly) return ...` before fs.writeFileSync.
Saves(options) == ~options.checkOnly

SegOptions == [force : BOOLEAN, checkOnly : BOOLEAN]

\* The script is started on a file (an image, no file, or a file that is no
\* image), with its options; asset-pipeline.js is not running.
SegInit ==
    /\ file \in Images \cup {NoFile, BadFile}
    /\ inputFile = file
    /\ segOptions \in SegOptions
    /\ segPc = "start"
    /\ bgInfo = [type |-> "none"]
    /\ backgroundPixels = {}
    /\ outputAlpha = <<>>
    /\ trimmed = NoFile
    /\ segResult = NoResult
    /\ pass = 1
    /\ costLimit = 0
    /\ sessionCost = 0
    /\ maxIterationsArg = 0
    /\ assetIdx = 1
    /\ currentPrompt = CatalogPrompt(1)
    /\ passed = FALSE
    /\ iteration = 0
    /\ pc = "while"
    /\ genResult = NoResult
    /\ reviewResult = NoResult
    /\ genInvoked = [a \in Assets |-> 0]
    /\ genCalls = [a \in Assets |-> 0]
    /\ revInvoked = [a \in Assets |-> 0]
    /\ revCalls = [a \in Assets |-> 0]
    /\ genReturned = 0
    /\ revReturned = 0
    /\ spentAtEntry = 0
    /\ firstPass = [a \in Assets |-> 0]
    /\ outcome = [a \in Assets |-> "pending"]
    /\ genPrompt = NoPrompt
    /\ cycles = [a \in Assets |-> 0]
    /\ rembgResult = "none"
    /\ inFlight = {}
    /\ budgetRefused = FALSE
    /\ workerPc = [a \in Assets |-> "idle"]
    /\ raced = FALSE
    /\ costSummary = NoSummary
    /\ manifest = [a \in Assets |-> CatalogPrompt(a)]
    /\ disk = [a \in Assets |-> 0]
    /\ BatchIdle

\* Everything removeBackground leaves alone: what asset-pipeline.js owns, and
\* main's loop.
notSegVars ==
    <<pipelineVars, costLimit, sessionCost, concurrentVars, costSummary, batchVars>>

\* `if (!fs.existsSync(inputPath))`: 'File not found'.
SegNotFound ==
    /\ segPc = "start"
    /\ file = NoFile
    /\ segResult' = Failure("File not found")
    /\ segPc' = "done"
    /\ UNCHANGED <<file, inputFile, segOptions, bgInfo, backgroundPixels,
                   outputAlpha, trimmed, pass, notSegVars>>

\* sharp cannot decode the file: detectBackgroundColor throws, the catch
\* returns the error.
SegReadThrows ==
    /\ segPc = "start"
    /\ file = BadFile
    /\ segResult' = Failure("read failed")
    /\ segPc' = "done"
    /\ UNCHANGED <<file, inputFile, segOptions, bgInfo, backgroundPixels,
                   outputAlpha, trimmed, pass, notSegVars>>

\* The background is unknown and --force is not given: 'Unknown background'.
SegSkipsUnknown ==
    /\ segPc = "start"
    /\ file \notin {NoFile, BadFile}
    /\ LET info == detectBackgroundColor(file)
       IN  /\ SkipsUnknown(info.type, segOptions)
           /\ bgInfo' = info
    /\ segResult' = Failure("Unknown background")
    /\ segPc' = "done"
    /\ UNCHANGED <<file, inputFile, segOptions, backgroundPixels, outputAlpha,
                   trimmed, pass, notSegVars>>

\* The background is detected (or forced); the flood fill, the alpha
\* assignment and the smoothing run on the pixels read from the file.
SegFill ==
    /\ segPc = "start"
    /\ file \notin {NoFile, BadFile}
    /\ LET info == detectBackgroundColor(file)
           marked == floodFillBackground(file, info.color4, ToleranceFor(info.type))
       IN  /\ ~SkipsUnknown(info.type, segOptions)
           /\ bgInfo' = info
           /\ backgroundPixels' = marked
           /\ outputAlpha' = smoothEdges(AssignAlpha(file, marked), file.w, file.h)
    /\ segPc' = "filled"
    /\ UNCHANGED <<file, inputFile, segOptions, trimmed, segResult, pass,
                   notSegVars>>

\* The trim gives the cropped image.
SegTrim ==
    /\ segPc = "filled"
    /\ \E t \in TrimOutcomes(OutputImage(file, backgroundPixels, outputAlpha)) :
          /\ t.ok
          /\ trimmed' = t.image
    /\ segPc' = "trimmed"
    /\ UNCHANGED <<file, inputFile, segOptions, bgInfo, backgroundPixels,
                   outputAlpha, segResult, pass, notSegVars>>

\* The trim throws: the catch returns the error.
SegTrimThrows ==
    /\ segPc = "filled"
    /\ \E t \in TrimOutcomes(OutputImage(file, backgroundPixels, outputAlpha)) :
          ~t.ok
    /\ segResult' = Failure("trim failed")
    /\ segPc' = "done"
    /\ UNCHANGED <<file, inputFile, segOptions, bgInfo, backgroundPixels,
                   outputAlpha, trimmed, pass, notSegVars>>

\* --check: 'Would trim', nothing is written.
SegCheckOnly ==
    /\ segPc = "trimmed"
    /\ ~Saves(segOptions)
    /\ segResult' = [success |-> TRUE, error |-> "", wouldModify |-> TRUE]
    /\ segPc' = "done"
    /\ UNCHANGED <<file, inputFile, segOptions, bgInfo, backgroundPixels,
                   outputAlpha, trimmed, pass, notSegVars>>

\* fs.writeFileSync(inputPath, trimmed).
SegSave ==
    /\ segPc = "trimmed"
    /\ Saves(segOptions)
    /\ file' = trimmed
    /\ segResult' = [success |-> TRUE, error |-> "", wouldModify |-> FALSE]
    /\ segPc' = "done"
    /\ UNCHANGED <<inputFile, segOptions, bgInfo, backgroundPixels, outputAlpha,
                   trimmed, pass, notSegVars>>

\* The script is run again, with the same options, on a file it has saved.
SegRunAgain ==
    /\ segPc = "done"
    /\ pass < MaxPasses
    /\ segResult.success
    /\ ~segResult.wouldModify
    /\ pass' = pass + 1
    /\ segPc' = "start"
    /\ segResult' = NoResult
    /\ UNCHANGED <<file, inputFile, segOptions, bgInfo, backgroundPixels,
                   outputAlpha, trimmed, notSegVars>>

SegNext ==
    \/ SegNotFound
    \/ SegReadThrows
    \/ SegSkipsUnknown
    \/ SegFill
    \/ SegTrim
    \/ SegTrimThrows
    \/ SegCheckOnly
    \/ SegSave
    \/ SegRunAgain

SegSpec == SegInit /\ [][SegNext]_vars

\* ------------------------------------------ detectBackgroundColor by itself

\* Side of the images on which the detection is run with an offset.
DetectSide == 4

\* How far in from the corners the detection samples those images.
DetectOffset == 1

\* The corner pixels of a w x h image.
LiteralCorners(w, h) == {<<0, 0>>, <<w - 1, 0>>, <<0, h - 1>>, <<w - 1, h - 1>>}

\* The pixels o in from the corners.
OffsetCorners(w, h, o) ==
    {<<o, o>>, <<w - o - 1, o>>, <<o, h - o - 1>>, <<w - o - 1, h - o - 1>>}

\* The white images whose corner pixels and sampled pixels have any colours.
DetectImages ==
    LET marked == LiteralCorners(DetectSide, DetectSide)
                    \cup OffsetCorners(DetectSide, DetectSide, DetectOffset)
    IN  {[w |-> DetectSide, h |-> DetectSide,
          px |-> [p \in Coords(DetectSide, DetectSide) |->
                    [c |-> IF p \in marked THEN f[p] ELSE "white", a |-> OPAQUE]]] :
            f \in [marked -> Colours]}

\* asset-pipeline.js is not running.
PipelineNotStarted ==
    /\ costLimit = 0
    /\ sessionCost = 0
    /\ maxIterationsArg = 0
    /\ assetIdx = 1
    /\ currentPrompt = CatalogPrompt(1)
    /\ passed = FALSE
    /\ iteration = 0
    /\ pc = "while"
    /\ genResult = NoResult
    /\ reviewResult = NoResult
    /\ genInvoked = [a \in Assets |-> 0]
    /\ genCalls = [a \in Assets |-> 0]
    /\ revInvoked = [a \in Assets |-> 0]
    /\ revCalls = [a \in Assets |-> 0]
    /\ genReturned = 0
    /\ revReturned = 0
    /\ spentAtEntry = 0
    /\ firstPass = [a \in Assets |-> 0]
    /\ outcome = [a \in Assets |-> "pending"]
    /\ genPrompt = NoPrompt
    /\ cycles = [a \in Assets |-> 0]
    /\ rembgResult = "none"
    /\ inFlight = {}
    /\ budgetRefused = FALSE
    /\ workerPc = [a \in Assets |-> "idle"]
    /\ raced = FALSE
    /\ costSummary = NoSummary
    /\ manifest = [a \in Assets |-> CatalogPrompt(a)]
    /\ disk = [a \in Assets |-> 0]

DetectInit ==
    /\ file \in DetectImages
    /\ inputFile = file
    /\ segOptions = [force |-> FALSE, checkOnly |-> TRUE]
    /\ segPc = "start"
    /\ bgInfo = [type |-> "none"]
    /\ backgroundPixels = {}
    /\ outputAlpha = <<>>
    /\ trimmed = NoFile
    /\ segResult = NoResult
    /\ pass = 1
    /\ PipelineNotStarted
    /\ BatchIdle

\* detectBackgroundColor(inputPath), sampling DetectOffset in from the corners.
Detect ==
    /\ segPc = "start"
    /\ bgInfo' = detectBackgroundColorOf(CornerSamplesAt(file, DetectOffset))
    /\ segPc' = "detected"
    /\ UNCHANGED <<file, inputFile, segOptions, backgroundPixels, outputAlpha,
                   trimmed, segResult, pass, notSegVars>>

DetectNext == Detect

DetectSpec == DetectInit /\ [][DetectNext]_vars

\* --------------------------------------------- main's loop over the files

\* How many files a batch lists at most.
NumFiles == 3

\* Width of the images of a batch, which are one pixel high.
BatchSide == 2

\* What a listed path can hold: nothing, something that is no image, an image.
BatchFiles == {NoFile, BadFile} \cup ImagesOf(BatchSide, 1, {"white", "black"})

\* The lists of files of a batch.
BatchLists == UNION {[1..n -> BatchFiles] : n \in 0..NumFiles}

BatchInit ==
    /\ files \in BatchLists
    /\ fileIdx = 1
    /\ counts = [success |-> 0, skipped |-> 0, failed |-> 0]
    /\ calls = [i \in 1..Len(files) |-> 0]
    /\ mainPc = "loop"
    /\ segOptions \in SegOptions
    /\ file = NoFile
    /\ inputFile = NoFile
    /\ segPc = "idle"
    /\ bgInfo = [type |-> "none"]
    /\ backgroundPixels = {}
    /\ outputAlpha = <<>>
    /\ trimmed = NoFile
    /\ segResult = NoResult
    /\ pass = 0
    /\ PipelineNotStarted

\* A loop that ends at the first file that does not succeed.
NextFileStopsOnFailure(i, result, n) == IF result.success THEN i + 1 ELSE n + 1

\* `for (const filePath of filesToProcess)`: the next position, whatever the
\* result of the file before.
NextFile(i, result, n) == i + 1

\* `if (result.success) success++; else if (result.error === 'Unknown
\* background') skipped++; else failed++`.
Tally(c, result) ==
    IF result.success
      THEN [c EXCEPT !.success = @ + 1]
      ELSE IF result.error = "Unknown background"
             THEN [c EXCEPT !.skipped = @ + 1]
             ELSE [c EXCEPT !.failed = @ + 1]

\* `await removeBackground(filePath, options)` is called on the next file.
BatchCall ==
    /\ mainPc = "loop"
    /\ fileIdx <= Len(files)
    /\ file' = files[fileIdx]
    /\ inputFile' = files[fileIdx]
    /\ segPc' = "start"
    /\ pass' = 1
    /\ segResult' = NoResult
    /\ bgInfo' = [type |-> "none"]
    /\ backgroundPixels' = {}
    /\ outputAlpha' = <<>>
    /\ trimmed' = NoFile
    /\ calls' = [calls EXCEPT ![fileIdx] = @ + 1]
    /\ mainPc' = "await"
    /\ UNCHANGED <<files, fileIdx, counts, segOptions, pipelineVars, costLimit,
                   sessionCost, concurrentVars, costSummary>>

\* removeBackground has returned: its result is counted and the loop goes on.
BatchCount ==
    /\ mainPc = "await"
    /\ segPc = "done"
    /\ counts' = Tally(counts, segResult)
    /\ files' = [files EXCEPT ![fileIdx] = file]
    /\ fileIdx' = NextFile(fileIdx, segResult, Len(files))
    /\ mainPc' = "loop"
    /\ segPc' = "idle"
    /\ UNCHANGED <<calls, file, inputFile, segOptions, bgInfo, backgroundPixels,
                   outputAlpha, trimmed, segResult, pass, pipelineVars, costLimit,
                   sessionCost, concurrentVars, costSummary>>

\* The loop is over: '=== Summary ===' and the three counts.
BatchSummary ==
    /\ mainPc = "loop"
    /\ fileIdx > Len(files)
    /\ mainPc' = "summary"
    /\ UNCHANGED <<files, fileIdx, counts, calls, file, inputFile, segOptions, segPc,
                   bgInfo, backgroundPixels, outputAlpha, trimmed, segResult, pass,
                   pipelineVars, costLimit, sessionCost, concurrentVars, costSummary>>

BatchNext ==
    \/ BatchCall
    \/ SegNotFound
    \/ SegReadThrows
    \/ SegSkipsUnknown
    \/ SegFill
    \/ SegTrim
    \/ SegTrimThrows
    \/ SegCheckOnly
    \/ SegSave
    \/ BatchCount
    \/ BatchSummary

BatchSpec == BatchInit /\ [][BatchNext]_vars

\* ---------------------------------------------------------------- claims

GenCost == CostOf(GenCostType)

ReviewCost == CostOf(ReviewCostType)

\* generateAsset (reviewAsset) is entered in this step.
GenEntered == \E a \in Assets : genInvoked'[a] # genInvoked[a]

RevEntered == \E a \in Assets : revInvoked'[a] # revInvoked[a]

\* No request of either kind goes to the services in this step.
NoRequestSent == genCalls' = genCalls /\ revCalls' = revCalls

\* C1: no generation or review request is sent when, at the budget check,
\* spent + unitCost > limit; generateAsset and reviewAsset then return the
\* 'Budget limit reached' failure, with no request sent and spent unchanged.
C1_NoCallOverBudget ==
    [][ /\ genCalls' # genCalls => sessionCost + GenCost <= costLimit
        /\ revCalls' # revCalls => sessionCost + ReviewCost <= costLimit
        /\ GenEntered /\ sessionCost + GenCost > costLimit
             => /\ genResult' = Failure(BudgetError)
                /\ NoRequestSent
                /\ sessionCost' = sessionCost
        /\ RevEntered /\ sessionCost + ReviewCost > costLimit
             => /\ reviewResult' = Failure(BudgetError)
                /\ NoRequestSent
                /\ sessionCost' = sessionCost ]_vars

\* A review was refused for one asset and a generation for the next, both with
\* money already spent.
C1_Witness ==
    /\ reviewResult = Failure(BudgetError)
    /\ genResult = Failure(BudgetError)
    /\ sessionCost > 0
    /\ sessionCost + ReviewCost > costLimit
    /\ revInvoked[1] > revCalls[1]
    /\ genInvoked[2] > genCalls[2]

\* C2: starting from spent = 0 with any limit >= 0, spent <= limit in every
\* reachable state.
C2_SpentWithinLimit == sessionCost <= costLimit

\* The budget is used up to the last cent and a later call has been refused.
C2_Witness ==
    /\ costLimit > 0
    /\ sessionCost = costLimit
    /\ genResult = Failure(BudgetError)

\* C3: with --max-iterations=N, at most N generation requests and at most N
\* review requests are made for one asset.
C3_AtMostArgCalls ==
    \A a \in Assets :
        genCalls[a] <= maxIterationsArg /\ revCalls[a] <= maxIterationsArg

\* C4: when every external call returns or throws, each session leaves its
\* loop, after at most maxIterations generate/review round trips, and the run
\* ends.
C4_Termination ==
    /\ <>(pc = "done" /\ \A a \in Assets : outcome[a] # "pending")
    /\ [](/\ iteration <= maxIterations
          /\ \A a \in Assets :
                genCalls[a] <= maxIterations /\ revCalls[a] <= maxIterations)

\* The run has ended and one session used all of its maxIterations >= 2 round
\* trips without an approval.
C4_Witness ==
    /\ pc = "done"
    /\ maxIterations >= 2
    /\ \E a \in Assets :
          /\ outcome[a] = "exhausted"
          /\ genCalls[a] = maxIterations
          /\ revCalls[a] = maxIterations

\* C5: every review result the loop acts on has passed = (overallScore >= 7),
\* whatever `passed` the payload carried.
C5_ThresholdConsistency ==
    reviewResult.success =>
        (reviewResult.review.passed <=> reviewResult.review.overallScore >= PASS_SCORE)

\* C6: once a session is approved, exhausted or failed, generateAsset and
\* reviewAsset are not entered and no request is sent for that asset again,
\* and its outcome stays.
C6_TerminalIsFinal ==
    [][ \A a \in Assets :
          outcome[a] # "pending" =>
             /\ genCalls'[a] = genCalls[a]
             /\ revCalls'[a] = revCalls[a]
             /\ genInvoked'[a] = genInvoked[a]
             /\ revInvoked'[a] = revInvoked[a]
             /\ outcome'[a] = outcome[a] ]_vars

\* The first asset was approved and is closed; the second asset's generation
\* request is in flight.
C6_Witness ==
    /\ outcome[1] = "approved"
    /\ assetIdx = 2
    /\ pc = "gen_call"
    /\ genCalls[1] >= 1

\* C7: a generateAsset that fails because of the provider (the request threw,
\* or the response held no image entry) leaves spent as it was on entry.
C7_ProviderFailureNotCharged ==
    (~genResult.success /\ genResult.error \in {"request failed", "no image entry"})
        => sessionCost = spentAtEntry

\* C8: spent is the sum of the unit costs of the requests the services
\* answered, each once; it never decreases; a refused call and a call that
\* threw add nothing.
C8_SpentIsSumOfAnswered ==
    /\ [](sessionCost = GenCost * genReturned + ReviewCost * revReturned)
    /\ [][ /\ sessionCost' >= sessionCost
           /\ (genResult' # genResult
                 /\ genResult'.error \in {BudgetError, "request failed"})
                => sessionCost' = sessionCost
           /\ (reviewResult' # reviewResult
                 /\ reviewResult'.error \in {BudgetError, "request failed"})
                => sessionCost' = sessionCost ]_vars

\* Both services have answered, a review request has thrown and a generation
\* has been refused.
C8_Witness ==
    /\ genReturned >= 2
    /\ revReturned >= 1
    /\ reviewResult = Failure("request failed")
    /\ genResult = Failure(BudgetError)
    /\ sessionCost = GenCost * genReturned + ReviewCost * revReturned

C10_StopsAtFirstPass ==
    \A a \in Assets :
        /\ firstPass[a] # 0 =>
              /\ genCalls[a] = firstPass[a]
              /\ revCalls[a] = firstPass[a]
              /\ firstPass[a] <= maxIterations
              /\ outcome[a] = "approved"
        /\ outcome[a] = "approved" => firstPass[a] # 0

\* With maxIterations = 3 the first asset's second review (score 8) passed
\* after a first one that did not: two cycles, approved, session closed.
C10_Witness ==
    /\ maxIterations = 3
    /\ firstPass[1] = 2
    /\ genCalls[1] = 2
    /\ revCalls[1] = 2
    /\ outcome[1] = "approved"
    /\ assetIdx = 2
    /\ pc = "while"
    /\ reviewResult.success
    /\ reviewResult.review.overallScore = 8

\* The latest reviewAsset returned the parse-failure fallback.
FallbackReturned == reviewResult.success /\ reviewResult.review.parseError

\* C11: when the review response holds no JSON that parses, reviewAsset
\* returns success with the fallback review (score 5, passed false, the
\* parse-error flag); the session is not ended by it, and when iterations
\* remain the next thing the loop does is start generateAsset again with the
\* prompt of the generation before.
C11_FallbackReviewRetries ==
    [][ /\ (pc = "rev_call" /\ reviewResult'.success
              /\ reviewResult'.review.parseError)
           => /\ reviewResult'.review.overallScore = FALLBACK_SCORE
              /\ ~reviewResult'.review.passed
              /\ ~passed'
              /\ assetIdx' = assetIdx
              /\ outcome' = outcome
              /\ currentPrompt' = currentPrompt
              /\ pc' = "while"
        /\ (pc = "while" /\ iteration >= 1 /\ iteration < maxIterations
              /\ FallbackReturned)
           => /\ GenEntered
              /\ assetIdx' = assetIdx \/ genCalls' = genCalls
              /\ genPrompt' = genPrompt
      ]_vars

\* A second generation request is out after a fallback review, with the
\* catalog prompt of the first.
C11_Witness ==
    /\ pc = "gen_call"
    /\ iteration = 2
    /\ FallbackReturned
    /\ genPrompt = CatalogPrompt(assetIdx)

\* The loop stands at its test after a review of this session that did not
\* pass and carried no regeneration prompt.
FailedReviewWithoutPrompt ==
    /\ pc = "while"
    /\ iteration >= 1
    /\ reviewResult.success
    /\ ~reviewResult.review.passed
    /\ reviewResult.review.regenerationPrompt = NoPrompt

\* C12, as stated: after a review with passed = false and no regeneration
\* prompt the session is exhausted at once, with no further generateAsset for
\* the asset, even when iteration < maxIterations.
C12_ExhaustedWithoutPrompt ==
    [][ FailedReviewWithoutPrompt
          => ~GenEntered /\ outcome'[assetIdx] = "exhausted" ]_vars

\* C12, amended: after a review with passed = false and no regeneration
\* prompt the loop goes on while iteration < maxIterations, starting
\* generateAsset again with the unchanged prompt; the session is exhausted
\* only once iteration = maxIterations.
C12_RetriesWithoutPrompt ==
    [][ FailedReviewWithoutPrompt
          => IF iteration < maxIterations
               THEN /\ GenEntered
                    /\ genPrompt' = genPrompt
                    /\ outcome'[assetIdx] # "exhausted"
               ELSE /\ ~GenEntered
                    /\ outcome'[assetIdx] = "exhausted" ]_vars

\* A second generation request is out after a parsed review that failed the
\* asset and suggested no prompt.
C12_Witness ==
    /\ pc = "gen_call"
    /\ iteration = 2
    /\ reviewResult.success
    /\ ~reviewResult.review.parseError
    /\ ~reviewResult.review.passed
    /\ reviewResult.review.regenerationPrompt = NoPrompt
    /\ genPrompt = CatalogPrompt(assetIdx)

\* C13: within a session currentAsset.prompt changes only in the step that
\* takes a review with passed = false at an iteration below maxIterations,
\* and then to that review's regenerationPrompt; from the generateAsset call
\* to the end of its review the prompt is the one generateAsset was given.
C13_PromptChangesOnlyAfterFailedReview ==
    [][ /\ (assetIdx' = assetIdx /\ currentPrompt' # currentPrompt)
           => /\ pc = "rev_call"
              /\ pc' = "while"
              /\ reviewResult'.success
              /\ ~reviewResult'.review.passed
              /\ ~passed'
              /\ iteration < maxIterations
              /\ currentPrompt' = reviewResult'.review.regenerationPrompt
        /\ pc \in {"gen_call", "download", "wait", "rev_call"}
           => genPrompt = currentPrompt
      ]_vars

\* The second generation request of a session is out with the prompt the
\* first review suggested.
C13_Witness ==
    /\ pc = "gen_call"
    /\ iteration = 2
    /\ genPrompt = <<"improved">>
    /\ reviewResult.success
    /\ ~reviewResult.review.passed

\* C14: `iteration` starts at 0 in every session, goes up by one in each step
\* that starts a cycle and in no other, so that it equals the number of
\* generateAsset invocations made for the asset, whether the cycle completes,
\* its generation fails or its review fails, and it never exceeds
\* maxIterations.
C14_IterationCountsInvocations ==
    /\ [] /\ \A a \in Assets :
               /\ cycles[a] = genInvoked[a]
               /\ cycles[a] <= maxIterations
               /\ a > assetIdx => cycles[a] = 0
          /\ pc # "done" => /\ iteration = genInvoked[assetIdx]
                            /\ iteration = cycles[assetIdx]
    /\ [][ /\ GenEntered => cycles'[assetIdx] = cycles[assetIdx] + 1
           /\ ~GenEntered => cycles' = cycles
           /\ (assetIdx' = assetIdx /\ ~GenEntered) => iteration' = iteration
           /\ (assetIdx' # assetIdx) => iteration' = 0
         ]_vars

\* The first asset's session ended in its second cycle, whose generation the
\* budget refused: two cycles counted, one generation request sent.
C14_Witness ==
    /\ outcome[1] = "failed"
    /\ cycles[1] = 2
    /\ genCalls[1] = 1
    /\ revCalls[1] = 1

\* generateAsset returns a failure in this step: its budget check refuses, or
\* its request or its download ends in the catch.
GenerationFails ==
    /\ GenEntered \/ pc \in {"gen_call", "download"}
    /\ ~genResult'.success
    /\ genResult' # NoResult

\* C15: the step in which generateAsset fails, by a provider error or by a
\* budget refusal, ends the asset's session as failed, whatever iterations
\* remain: reviewAsset is not invoked for that attempt, and a failed asset
\* sees no further generateAsset or reviewAsset.
C15_GenerationFailureEndsSession ==
    [][ /\ GenerationFails
           => /\ outcome'[assetIdx] = "failed"
              /\ assetIdx' # assetIdx
              /\ revInvoked' = revInvoked
              /\ revInvoked'[assetIdx] = genInvoked'[assetIdx] - 1
        /\ \A a \in Assets :
             outcome[a] = "failed"
               => /\ genInvoked'[a] = genInvoked[a]
                  /\ revInvoked'[a] = revInvoked[a]
      ]_vars

\* The first asset failed in its first generation with two more iterations
\* allowed, and the run has gone on to the second asset.
C15_Witness ==
    /\ outcome[1] = "failed"
    /\ genInvoked[1] = 1
    /\ revInvoked[1] = 0
    /\ maxIterations = 3
    /\ genInvoked[2] = 1
    /\ budgetRefused = FALSE

\* C16: when removeBackgroundWithRembg fails after the image is written,
\* generateAsset still returns success, the cost tracked for the generation
\* stays in sessionCost, the session goes on, and the next thing the loop does
\* is invoke reviewAsset.
C16_RembgFailureKeepsGeneration ==
    [][ /\ (pc = "download" /\ rembgResult' = "failed")
           => /\ genResult'.success
              /\ sessionCost' = sessionCost
              /\ sessionCost' = spentAtEntry + GenCost
              /\ pc' = "wait"
              /\ assetIdx' = assetIdx
              /\ outcome' = outcome
        /\ (pc = "wait" /\ rembgResult = "failed")
           => /\ genResult.success
              /\ RevEntered
      ]_vars

\* The review request is out for an image whose background removal failed.
C16_Witness ==
    /\ pc = "rev_call"
    /\ rembgResult = "failed"
    /\ genResult.success
    /\ sessionCost = spentAtEntry + GenCost

\* C17: with the budget check and trackCost separated by the awaited request,
\* chains of two assets interleaved on the one ledger can take sessionCost
\* above costLimit (the witness); it happens only when a check passed while
\* another asset's request was between its own check and its trackCost, and
\* the excess is at most one generation cost per other asset.
C17_OverspendOnlyByInterleaving ==
    /\ sessionCost > costLimit => raced
    /\ sessionCost <= costLimit + (NumAssets - 1) * GenCost

\* Two generation requests were in flight together and both were answered:
\* more is spent than the limit allows.
C17_Witness ==
    /\ sessionCost > costLimit
    /\ raced
    /\ \A a \in Assets : workerPc[a] # "idle"

\* A request of either kind goes out for asset a in this step.
RequestSentFor(a) == genCalls'[a] # genCalls[a] \/ revCalls'[a] # revCalls[a]

\* C18: pipelineCommand awaits every call: at most one external request is in
\* flight at any time, it belongs to the asset the for loop stands at, every
\* earlier asset has its outcome and no later asset has been touched; a
\* request goes out only when none is in flight and every earlier asset has
\* its outcome.
C18_OneCallAtATime ==
    /\ [] /\ Cardinality(inFlight) <= 1
          /\ \A r \in inFlight : r[2] = assetIdx
          /\ \A a \in Assets :
               /\ a < assetIdx => outcome[a] # "pending"
               /\ a > assetIdx => genInvoked[a] = 0 /\ revInvoked[a] = 0
    /\ [][ \A a \in Assets :
             RequestSentFor(a)
               => /\ inFlight = {}
                  /\ a = assetIdx
                  /\ \A b \in Assets : b < a => outcome[b] # "pending"
         ]_vars

\* The review request of the second asset is the one request in flight, after
\* the first asset used up its iterations.
C18_Witness ==
    /\ inFlight = {<<"review", 2>>}
    /\ outcome[1] = "exhausted"
    /\ genCalls[1] = maxIterations

\* The session of the current asset ends as failed in this step.
SessionFails == pc # "done" /\ outcome'[assetIdx] = "failed"

\* C19: a failure of generateAsset or reviewAsset ends the session of the
\* current asset only: the for loop goes on to the next asset with a fresh
\* session (its catalog prompt, iteration 0, not passed), a fresh session
\* begins by invoking generateAsset with the catalog prompt, and a run that
\* has ended has invoked generateAsset for every asset.
C19_ErrorEndsOnlyItsSession ==
    /\ [][ /\ SessionFails
              => /\ assetIdx' = assetIdx + 1
                 /\ \A a \in Assets \ {assetIdx} : outcome'[a] = outcome[a]
                 /\ assetIdx' \in Assets
                      => /\ pc' = "while"
                         /\ iteration' = 0
                         /\ ~passed'
                         /\ currentPrompt' = CatalogPrompt(assetIdx')
           /\ (pc = "while" /\ iteration = 0)
              => /\ GenEntered
                 /\ genPrompt' = CatalogPrompt(assetIdx)
         ]_vars
    /\ [](pc = "done" => \A a \in Assets : genInvoked[a] >= 1)

\* The first asset failed on a provider error, and the generation request of
\* the second asset is out with its own catalog prompt.
C19_Witness ==
    /\ outcome[1] = "failed"
    /\ ~budgetRefused
    /\ assetIdx = 2
    /\ pc = "gen_call"
    /\ iteration = 1
    /\ genPrompt = CatalogPrompt(2)

\* C20: once a budget check of the run has refused, no generation or review
\* request is sent for the rest of the run, for the current asset or a later
\* one: generateAsset is still invoked for the later assets, and each time its
\* budget check refuses: sessionCost never goes down, a generation costs no
\* less than a review, and every session begins with a generation.
C20_NoCallAfterRefusal ==
    /\ [][ /\ budgetRefused => NoRequestSent /\ sessionCost' = sessionCost
           /\ budgetRefused' => NoRequestSent
           /\ (budgetRefused /\ GenEntered) => genResult' = Failure(BudgetError)
         ]_vars
    /\ [](budgetRefused
            => /\ sessionCost + GenCost > costLimit
               /\ inFlight = {})

\* The review of the first asset was refused, and the run ended with
\* generateAsset invoked for the second asset and no request sent for it.
C20_Witness ==
    /\ pc = "done"
    /\ budgetRefused
    /\ reviewResult = Failure(BudgetError)
    /\ genCalls[1] = 1
    /\ genInvoked[2] = 1
    /\ genCalls[2] = 0
    /\ revInvoked[2] = 0

\* C21: when every pending call returns or throws, the run ends: the cost
\* summary is printed, and when it is printed the for loop is over, every
\* target asset has its outcome (approved, exhausted or failed), no request is
\* in flight and no cycle is open; this holds too when the budget or the
\* iteration cap ended a session.
C21_RunCompletes ==
    /\ <>(costSummary # NoSummary)
    /\ [](costSummary # NoSummary
            => /\ pc = "done"
               /\ costSummary = <<sessionCost, costLimit>>
               /\ \A a \in Assets :
                    outcome[a] \in {"approved", "exhausted", "failed"}
               /\ inFlight = {}
               /\ iteration = 0)

\* The summary is out after the first asset ran into the iteration cap and the
\* second into the budget.
C21_Witness ==
    /\ costSummary # NoSummary
    /\ outcome[1] = "exhausted"
    /\ outcome[2] = "failed"
    /\ budgetRefused

SegTypeOK == segPc \in {"start", "filled", "trimmed", "done"}

\* The pixels on the border of a w x h image.
Border(w, h) ==
    {p \in Coords(w, h) : p[1] \in {0, w - 1} \/ p[2] \in {0, h - 1}}

\* The pixels of an image whose colour is within the tolerance of the
\* background found for it.
WithinTolerance(img, info) ==
    {p \in Coords(img.w, img.h) :
        isBackground(RGB(img.px[p].c), info.color4, ToleranceFor(info.type))}

\* The pixels of `within` that a 4-connected path inside `within` joins to a
\* pixel of `from`.
RECURSIVE Connected(_, _, _, _)
Connected(from, within, w, h) ==
    LET start == from \cap within
        grown == start \cup {q \in within : \E p \in start : q \in Neighbours4(p, w, h)}
    IN  IF grown = start THEN start ELSE Connected(grown, within, w, h)

\* The background-coloured pixels the border reaches.
BorderReachable(img, info) ==
    Connected(Border(img.w, img.h), WithinTolerance(img, info), img.w, img.h)

\* C22: after the flood fill and the smoothing, a background-coloured pixel
\* that no 4-connected path of background-coloured pixels joins to the border
\* has alpha 255, and every pixel with alpha 0 is a background-coloured pixel
\* the border reaches.
C22_EnclosedBackgroundStaysOpaque ==
    segPc = "filled" =>
        LET reached == BorderReachable(file, bgInfo)
        IN  /\ \A p \in WithinTolerance(file, bgInfo) \ reached : outputAlpha[p] = OPAQUE
            /\ {p \in Coords(file.w, file.h) : outputAlpha[p] = 0} \subseteq reached

C22_Witness ==
    /\ segPc = "filled"
    /\ WithinTolerance(file, bgInfo) \ BorderReachable(file, bgInfo) # {}
    /\ \E q \in Coords(file.w, file.h) : outputAlpha[q] = 0

\* C23: when the script is run a second time, on the file its first run
\* saved, the trimmed image has the size of that file and as many
\* non-transparent pixels: the second run removes nothing more.
C23_SecondRunChangesNothing ==
    (pass = 2 /\ segPc = "trimmed" /\ ~segOptions.force)
        => /\ trimmed.w = file.w
           /\ trimmed.h = file.h
           /\ Cardinality(Content(trimmed)) = Cardinality(Content(file))

\* The first run has trimmed a white image whose only content is the black
\* rectangle b.
RectangleTrimmed(b) ==
    /\ pass = 1
    /\ segPc = "trimmed"
    /\ inputFile = RectImage(inputFile.w, inputFile.h, b, "black")

\* The pixels outside b, and only they, were marked as background, and the
\* trimmed image is b: its size and its colour.
RectangleKept(b) ==
    /\ backgroundPixels = Coords(inputFile.w, inputFile.h) \ InBox(b)
    /\ Cardinality(backgroundPixels)
         = inputFile.w * inputFile.h - Cardinality(InBox(b))
    /\ trimmed.w = b.x1 - b.x0 + 1
    /\ trimmed.h = b.y1 - b.y0 + 1
    /\ \A p \in Coords(trimmed.w, trimmed.h) : trimmed.px[p].c = "black"

FileAtStart == IF pass = 1 THEN inputFile ELSE trimmed

\* C25: when the background found is unknown and --force is not given, the
\* run ends with 'Unknown background' and the file is as it was; the error is
\* returned in that case only, and a run goes on to the flood fill with an
\* unknown background only under --force.
C25_UnknownNeedsForce ==
    /\ (bgInfo.type = "unknown" /\ ~segOptions.force)
          => /\ segPc = "done"
             /\ segResult = Failure("Unknown background")
             /\ file = FileAtStart
    /\ segResult = Failure("Unknown background")
          => bgInfo.type = "unknown" /\ ~segOptions.force
    /\ (segPc \in {"filled", "trimmed"} /\ bgInfo.type = "unknown")
          => segOptions.force

C25_Witness ==
    /\ segPc = "done"
    /\ segResult = Failure("Unknown background")
    /\ ~segOptions.force
    /\ ~segOptions.checkOnly
    /\ file = inputFile
    /\ file \in Images

\* C26: with --check no step of a run changes the file, whatever the input
\* and however the run ends.
C26_CheckOnlyNeverWrites == [][segOptions.checkOnly => file' = file]_vars

C26_Witness ==
    /\ segOptions.checkOnly
    /\ segPc = "done"
    /\ segResult.success
    /\ segResult.wouldModify
    /\ trimmed # file
    /\ file = inputFile

\* C27: after the flood fill every pixel within the tolerance of the
\* background colour that a 4-connected path of within-tolerance pixels joins
\* to a pixel of the border is marked as background.
C27_AllBorderConnectedMarked ==
    segPc = "filled" => BorderReachable(file, bgInfo) \subseteq backgroundPixels

\* A sequence, last element first.
Reverse(s) == [k \in 1..Len(s) |-> s[Len(s) + 1 - k]]

\* The pixels of an image each of whose three channels is at most the
\* tolerance away from the background colour.
NearBackground(img, info) ==
    {p \in Coords(img.w, img.h) :
        \A k \in Channels :
            /\ 4 * RGB(img.px[p].c)[k] - info.color4[k] <= 4 * ToleranceFor(info.type)
            /\ info.color4[k] - 4 * RGB(img.px[p].c)[k] <= 4 * ToleranceFor(info.type)}

\* C28: the set floodFillBackground returns is the set of the pixels of the
\* image that are within the tolerance on all three channels and joined to a
\* starting point (a corner, or every 10th pixel of an edge) by a 4-connected
\* path of such pixels; it holds no other pixel and no coordinate outside the
\* image, and filling from the starting points in the opposite order gives
\* the same set.
C28_FillIsClosureFromSeeds ==
    segPc = "filled" =>
        LET seeds == Seeds(file.w, file.h)
            near == NearBackground(file, bgInfo)
        IN  /\ backgroundPixels
                 = Connected({seeds[k] : k \in 1..Len(seeds)}, near, file.w, file.h)
            /\ backgroundPixels \subseteq near
            /\ backgroundPixels \subseteq Coords(file.w, file.h)
            /\ backgroundPixels
                 = FloodFillFrom(Reverse(seeds), file, bgInfo.color4,
                                 ToleranceFor(bgInfo.type))

C28_Witness ==
    /\ segPc = "filled"
    /\ bgInfo.type = "unknown"
    /\ backgroundPixels # {}
    /\ NearBackground(file, bgInfo) \ backgroundPixels # {}
    /\ \E p \in Coords(file.w, file.h) :
          /\ p \notin NearBackground(file, bgInfo)
          /\ file.px[p].c = "white"

\* C29: after the alpha assignment and the smoothing, the pixels with alpha 0
\* are the pixels marked as background, and every other pixel has an alpha
\* from 200 to 255.
C29_AlphaZeroOrAtLeastFloor ==
    segPc = "filled" =>
        \A p \in Coords(file.w, file.h) :
            /\ outputAlpha[p] = 0 <=> p \in backgroundPixels
            /\ p \notin backgroundPixels => outputAlpha[p] \in ALPHA_FLOOR..OPAQUE

C29_Witness ==
    /\ segPc = "filled"
    /\ \E p \in Coords(file.w, file.h) :
          /\ outputAlpha[p] = ALPHA_FLOOR
          /\ Cardinality(Neighbours4(p, file.w, file.h) \cap backgroundPixels) >= 2
    /\ \E p \in Coords(file.w, file.h) : outputAlpha[p] \in (ALPHA_FLOOR + 1)..(OPAQUE - 1)
    /\ \E p \in Coords(file.w, file.h) : outputAlpha[p] = OPAQUE

\* C30: after the smoothing, every pixel that the alpha assignment left at
\* 255 and that has a 4-connected neighbour at alpha 0 has an alpha below 255,
\* in the outermost rows and columns too.
C30_SmoothingReachesEveryEdgePixel ==
    segPc = "filled" =>
        \A p \in Coords(file.w, file.h) \ backgroundPixels :
            Neighbours4(p, file.w, file.h) \cap backgroundPixels # {}
                => outputAlpha[p] < OPAQUE

RECURSIVE SumOver(_, _, _)
SumOver(s, k, i) == IF i = 0 THEN 0 ELSE s[i][k] + SumOver(s, k, i - 1)

\* Len(s) times the summed distance, over the first i samples and the three
\* channels, from the mean sum / Len(s).
RECURSIVE DeviationOver(_, _, _)
DeviationOver(s, sum, i) ==
    IF i = 0 THEN 0
    ELSE Abs(Len(s) * s[i][1] - sum[1]) + Abs(Len(s) * s[i][2] - sum[2])
           + Abs(Len(s) * s[i][3] - sum[3]) + DeviationOver(s, sum, i - 1)

\* The type of background for any number of samples: 'unknown' when their mean
\* absolute deviation is over 30, else 'white' for a mean brightness over 230,
\* 'black' for one under 25, 'unknown' between.  With n samples the sums are
\* compared n-fold, so that nothing is rounded.
TypeOfSamples(s) ==
    LET n == Len(s)
        sum == [k \in Channels |-> SumOver(s, k, n)]
        deviation == DeviationOver(s, sum, n)
        brightness == sum[1] + sum[2] + sum[3]
    IN  IF deviation > VARIANCE_LIMIT * n * n THEN "unknown"
        ELSE IF brightness > WHITE_BRIGHTNESS * 3 * n THEN "white"
        ELSE IF brightness < BLACK_BRIGHTNESS * 3 * n THEN "black"
        ELSE "unknown"

\* C32: the type detected is the type of the samples taken at the four corner
\* pixels and at the four pixels offset from the corners together.
C32_SamplesIncludeCorners ==
    segPc = "detected" =>
        bgInfo.type = TypeOfSamples(CornerSamplesAt(file, DetectOffset)
                                      \o CornerSamplesAt(file, 0))

\* The type detected is the type of the four samples offset from the corners.
DetectedFromOffsetSamples ==
    segPc = "detected" =>
        bgInfo.type = TypeOfSamples(CornerSamplesAt(file, DetectOffset))

\* The files whose result has been counted.
Counted == counts.success + counts.skipped + counts.failed

\* C33: in a batch removeBackground is called at most once on a file and the
\* results counted are as many as the files the loop has passed; whatever a
\* call returns, the loop goes on to the next file; and at the summary every
\* file has had its one call and success + skipped + failed is the number of
\* files.
C33_BatchCountsEveryFile ==
    /\ [](/\ \A i \in 1..Len(files) : calls[i] <= 1
          /\ mainPc \in {"loop", "summary"} => Counted = fileIdx - 1
          /\ mainPc = "summary"
               => /\ \A i \in 1..Len(files) : calls[i] = 1
                  /\ Counted = Len(files))
    /\ [][mainPc = "await" /\ mainPc' # "await"
            => mainPc' = "loop" /\ fileIdx' = fileIdx + 1 /\ Counted' = Counted + 1]_vars

C33_Witness ==
    /\ mainPc = "summary"
    /\ Len(files) = NumFiles
    /\ counts.success = 1
    /\ counts.skipped = 1
    /\ counts.failed = 1
    /\ files[1] = BadFile

\* C34: the manifest's entries keep the prompts they were loaded with through
\* every session, and the first generation of every asset is called with the
\* asset's own catalog prompt, whatever the reviews of earlier sessions asked
\* for.
C34_CatalogNeverMutated ==
    /\ manifest = [a \in Assets |-> CatalogPrompt(a)]
    /\ (pc \in {"gen_call", "download", "wait"} /\ iteration = 1)
          => genPrompt = CatalogPrompt(assetIdx)

C34_Witness ==
    /\ assetIdx = 1
    /\ pc = "download"
    /\ iteration = 2
    /\ currentPrompt \in RegenerationPrompts \ {NoPrompt}
    /\ genPrompt = currentPrompt
    /\ manifest[1] = CatalogPrompt(1)

\* C35: final write wins. Every generation writes the output file of the
\* asset of its own session and no other; the file of an asset whose session
\* ended approved holds the image of the attempt whose review passed, which
\* is the latest attempt of the session; no step writes that file afterwards.
C35_FinalWriteWins ==
    /\ [](\A a \in Assets :
            outcome[a] = "approved"
              => /\ disk[a] >= 1
                 /\ disk[a] = cycles[a]
                 /\ disk[a] = firstPass[a])
    /\ [][/\ disk' # disk
             => /\ pc = "download"
                /\ disk' = [disk EXCEPT ![assetIdx] = iteration]
          /\ \A a \in Assets :
               outcome[a] = "approved" => disk'[a] = disk[a]]_vars

\* The session of asset 1 was approved at its second attempt, whose image
\* replaced that of the first in the same file.
C35_Witness ==
    /\ outcome[1] = "approved"
    /\ cycles[1] = 2
    /\ firstPass[1] = 2
    /\ disk[1] = 2

\* C36: a review request the service answers is charged once, by the step
\* that receives the answer: spent grows by the review unit cost whether the
\* text parses, falls back to the default review, or has no choice to read;
\* a review request that throws, a review refused by the budget check and a
\* review whose image cannot be read leave spent as it was.
C36_AnsweredReviewChargedOnce ==
    [][/\ (pc = "rev_call" /\ pc' # "rev_call")
          => IF reviewResult' = Failure("request failed")
               THEN sessionCost' = sessionCost /\ revReturned' = revReturned
               ELSE /\ sessionCost' = sessionCost + ReviewCost
                    /\ revReturned' = revReturned + 1
       /\ revReturned' # revReturned => pc = "rev_call"
       /\ (pc = "wait" /\ reviewResult' # reviewResult /\ pc' # "rev_call")
          => /\ reviewResult'.error \in {BudgetError, "read failed"}
             /\ sessionCost' = sessionCost
       /\ (pc = "wait" /\ pc' = "rev_call") => sessionCost' = sessionCost]_vars

\* An answer that did not parse has been charged: the default review is
\* what reviewAsset returned and spent counts every answered review.
C36_Witness ==
    /\ FallbackReturned
    /\ revReturned = 2
    /\ sessionCost = GenCost * genReturned + ReviewCost * 2

\* The alphas a step of a scan reads, were they those of outputData as the
\* scan has left it so far.
SmoothSourceInPlace(tempAlpha, data) == data

\* The alphas a step of smoothEdges' loops reads: `tempAlpha[idx]` and
\* `tempAlpha[idx - 1]`, ..., the copy made before the loops.
SmoothSource(tempAlpha, data) == tempAlpha

\* The body of smoothEdges' loops at pixel p: data is outputData's alpha as
\* the scan has left it so far.
SmoothStep(p, tempAlpha, data, w, h) ==
    LET src == SmoothSource(tempAlpha, data)
        neighbors == <<src[<<p[1] - 1, p[2]>>], src[<<p[1] + 1, p[2]>>],
                       src[<<p[1], p[2] - 1>>], src[<<p[1], p[2] + 1>>]>>
    IN  IF src[p] = OPAQUE /\ \E i \in 1..4 : neighbors[i] = 0
          THEN [data EXCEPT ![p] =
                  SmoothedAlpha(src[p], neighbors[1] + neighbors[2]
                                          + neighbors[3] + neighbors[4])]
          ELSE data

\* The loops of smoothEdges run over the pixels of `order`, one after another.
RECURSIVE SmoothScan(_, _, _, _, _)
SmoothScan(order, tempAlpha, data, w, h) ==
    IF order = <<>>
      THEN data
      ELSE SmoothScan(Tail(order), tempAlpha,
                      SmoothStep(Head(order), tempAlpha, data, w, h), w, h)

\* The order of smoothEdges' loops: y from 1 to height - 2, and for each y,
\* x from 1 to width - 2.
RowMajor(w, h) ==
    IF w < 3 \/ h < 3
      THEN <<>>
      ELSE [i \in 1..((w - 2) * (h - 2)) |->
              <<1 + ((i - 1) % (w - 2)), 1 + ((i - 1) \div (w - 2))>>]

\* The same pixels, x in the outer loop and y in the inner one.
ColumnMajor(w, h) ==
    IF w < 3 \/ h < 3
      THEN <<>>
      ELSE [i \in 1..((w - 2) * (h - 2)) |->
              <<1 + ((i - 1) \div (h - 2)), 1 + ((i - 1) % (h - 2))>>]

\* C37: the alphas smoothEdges leaves are those of a scan that reads only
\* the alphas copied before the loops, and they are the same whether the
\* pixels are scanned in the order of the loops, in the reverse order or
\* column by column; the new alpha of a pixel is fixed by the copied alphas
\* of the pixel and its four neighbours.
C37_SmoothingReadsSnapshot ==
    segPc = "filled" =>
        LET w == file.w
            h == file.h
            before == AssignAlpha(file, backgroundPixels)
        IN  /\ outputAlpha = SmoothScan(RowMajor(w, h), before, before, w, h)
            /\ outputAlpha = SmoothScan(Reverse(RowMajor(w, h)), before, before, w, h)
            /\ outputAlpha = SmoothScan(ColumnMajor(w, h), before, before, w, h)
            /\ \A p \in Coords(w, h) :
                 outputAlpha[p] = IF InSmoothingRange(p, w, h)
                                    THEN SmoothStep(p, before, before, w, h)[p]
                                    ELSE before[p]

\* Two smoothed pixels lie side by side, so that a scan reading outputData
\* would have met an alpha it had already lowered.
C37_Witness ==
    /\ segPc = "filled"
    /\ \E p \in Coords(file.w, file.h) :
         /\ InSmoothingRange(p, file.w, file.h)
         /\ InSmoothingRange(<<p[1] + 1, p[2]>>, file.w, file.h)
         /\ outputAlpha[p] \in ALPHA_FLOOR..(OPAQUE - 1)
         /\ outputAlpha[<<p[1] + 1, p[2]>>] \in ALPHA_FLOOR..(OPAQUE - 1)
         /\ AssignAlpha(file, backgroundPixels)[p] = OPAQUE

\* The tolerances the fills are compared at: the two configured ones and
\* one that takes every colour.
Tolerances == {BLACK_TOLERANCE, WHITE_TOLERANCE, OPAQUE}

\* C38: for the image and the background colour of a run, and the seeds of
\* the image's border, the background set of floodFillBackground at a
\* tolerance is contained in the set at every higher tolerance; the set at
\* the tolerance of the run's background type is the one the run computed.
C38_FillMonotoneInTolerance ==
    segPc = "filled" =>
        LET used == ToleranceFor(bgInfo.type)
            fill == [t \in Tolerances |->
                       IF t = used
                         THEN backgroundPixels
                         ELSE floodFillBackground(file, bgInfo.color4, t)]
        IN  \A t1, t2 \in Tolerances :
              t1 <= t2 => fill[t1] \subseteq fill[t2]

\* The fill of the run is not empty, and a higher tolerance takes pixels the
\* run left as content.
C38_Witness ==
    /\ segPc = "filled"
    /\ backgroundPixels # {}
    /\ \E t \in Tolerances :
         /\ t > ToleranceFor(bgInfo.type)
         /\ floodFillBackground(file, bgInfo.color4, t) # backgroundPixels
         /\ backgroundPixels \subseteq floodFillBackground(file, bgInfo.color4, t)
    /\ \E p \in Coords(file.w, file.h) : file.px[p].c = "cream"

==========================================================================
